---- MODULE Spec2Model ----
(***************************************************************************)
(* Master server of minikeyvalue: the request handler App.ServeHTTP, the   *)
(* per-key lock table, the metadata store (leveldb) and the volume servers *)
(* it talks to, with the placement and addressing functions of lib.go.     *)
(* Byte strings ([]byte and string values) are sequences of byte values.   *)
(***************************************************************************)
EXTENDS Integers, Sequences, FiniteSets, TLC

\* ---------------------------------------------------------------- bounds
\* largest Content-Length of a request
MaxLen == 1
\* number of PUT requests that race in RaceSpec
NumRacers == 3
\* the list limit of ListSpec, in place of the 1000000 of the code
ScaledLimit == 2

\* ---------------------------------------------------------- byte strings
\* the keys (URL paths) of the model: "/a", "/a/1", "/b"
KeyA == <<47, 97>>
KeyA1 == <<47, 97, 47, 49>>
KeyB == <<47, 98>>
Keys == {KeyA, KeyA1}
\* the keys of the list specification: "/a/1", "/a/2", "/a/3", "/b/1", and
\* the prefixes asked for: "/", "/a/", "/b/", "/c"
KeyA2 == <<47, 97, 47, 50>>
KeyA3 == <<47, 97, 47, 51>>
KeyB1 == <<47, 98, 47, 49>>
ListKeys == {KeyA1, KeyA2, KeyA3, KeyB1}
\* the keys of the placement specification
PlaceKeys == {KeyA, KeyB} \cup ListKeys
Prefixes == {<<47>>, <<47, 97, 47>>, <<47, 98, 47>>, <<47, 99>>}

\* the volume server names: "v1", "v2", "v3"
Vol1 == <<118, 49>>
Vol2 == <<118, 50>>
Vol3 == <<118, 51>>
AllVolumes == {Vol1, Vol2, Vol3}

\* the empty string, also string(nil)
Empty == <<>>

\* bytes.Compare: -1, 0 or 1 by lexicographic order of unsigned bytes
RECURSIVE BytesCompare(_, _)
BytesCompare(a, b) ==
    IF a = <<>> /\ b = <<>> THEN 0
    ELSE IF a = <<>> THEN 0 - 1
    ELSE IF b = <<>> THEN 1
    ELSE IF Head(a) < Head(b) THEN 0 - 1
    ELSE IF Head(a) > Head(b) THEN 1
    ELSE BytesCompare(Tail(a), Tail(b))

\* bytes.HasPrefix, the range of util.BytesPrefix
HasPrefix(s, p) ==
    /\ Len(p) <= Len(s)
    /\ SubSeq(s, 1, Len(p)) = p

\* md5 digests (16 bytes) of the byte strings the model hashes: every key,
\* and every key followed by a volume name
MD5(m) ==
    CASE m = <<47, 97>> ->  \* "/a"
           <<6, 57, 118, 127, 62, 158, 170, 215, 41, 181, 64, 55, 167, 226, 171, 245>>
      [] m = <<47, 97, 118, 49>> ->  \* "/av1"
           <<195, 230, 113, 66, 64, 193, 182, 135, 144, 131, 150, 59, 137, 86, 45, 254>>
      [] m = <<47, 97, 118, 50>> ->  \* "/av2"
           <<36, 124, 59, 136, 171, 186, 136, 9, 43, 122, 62, 230, 151, 234, 81, 243>>
      [] m = <<47, 97, 118, 51>> ->  \* "/av3"
           <<86, 62, 126, 114, 84, 41, 250, 251, 249, 101, 14, 76, 160, 208, 153, 22>>
      [] m = <<47, 97, 47, 49>> ->  \* "/a/1"
           <<221, 139, 201, 72, 18, 88, 86, 3, 95, 93, 104, 183, 177, 106, 184, 46>>
      [] m = <<47, 97, 47, 49, 118, 49>> ->  \* "/a/1v1"
           <<246, 115, 94, 17, 35, 158, 138, 211, 244, 139, 243, 1, 98, 218, 49, 248>>
      [] m = <<47, 97, 47, 49, 118, 50>> ->  \* "/a/1v2"
           <<71, 98, 102, 167, 189, 131, 233, 230, 152, 119, 120, 164, 75, 216, 122, 62>>
      [] m = <<47, 97, 47, 49, 118, 51>> ->  \* "/a/1v3"
           <<247, 151, 240, 212, 199, 146, 106, 187, 180, 34, 176, 162, 142, 240, 250, 56>>
      [] m = <<47, 98>> ->  \* "/b"
           <<151, 170, 11, 177, 136, 181, 93, 198, 105, 39, 168, 222, 89, 65, 135, 67>>
      [] m = <<47, 98, 118, 49>> ->  \* "/bv1"
           <<58, 93, 215, 66, 11, 30, 228, 88, 161, 39, 25, 27, 86, 83, 241, 244>>
      [] m = <<47, 98, 118, 50>> ->  \* "/bv2"
           <<227, 66, 38, 179, 185, 213, 200, 231, 63, 237, 13, 207, 25, 31, 47, 50>>
      [] m = <<47, 98, 118, 51>> ->  \* "/bv3"
           <<110, 33, 2, 93, 111, 95, 76, 128, 174, 170, 166, 107, 23, 152, 69, 50>>
      [] m = <<47, 97, 47, 50>> ->  \* "/a/2"
           <<27, 25, 93, 168, 16, 169, 123, 174, 3, 8, 3, 17, 255, 202, 69, 119>>
      [] m = <<47, 97, 47, 50, 118, 49>> ->  \* "/a/2v1"
           <<239, 181, 159, 110, 225, 62, 111, 45, 89, 203, 48, 244, 187, 74, 189, 41>>
      [] m = <<47, 97, 47, 50, 118, 50>> ->  \* "/a/2v2"
           <<120, 212, 154, 163, 2, 208, 169, 53, 46, 236, 0, 152, 22, 163, 242, 235>>
      [] m = <<47, 97, 47, 50, 118, 51>> ->  \* "/a/2v3"
           <<18, 39, 25, 131, 34, 98, 94, 231, 7, 29, 12, 243, 107, 157, 102, 185>>
      [] m = <<47, 97, 47, 51>> ->  \* "/a/3"
           <<113, 69, 41, 154, 193, 233, 191, 202, 154, 13, 111, 75, 73, 39, 8, 165>>
      [] m = <<47, 97, 47, 51, 118, 49>> ->  \* "/a/3v1"
           <<167, 207, 115, 53, 234, 167, 207, 129, 130, 246, 181, 65, 154, 221, 78, 158>>
      [] m = <<47, 97, 47, 51, 118, 50>> ->  \* "/a/3v2"
           <<46, 217, 159, 199, 142, 241, 185, 34, 207, 134, 1, 180, 14, 235, 190, 136>>
      [] m = <<47, 97, 47, 51, 118, 51>> ->  \* "/a/3v3"
           <<194, 111, 16, 213, 138, 42, 165, 232, 200, 13, 166, 208, 213, 63, 108, 221>>
      [] m = <<47, 98, 47, 49>> ->  \* "/b/1"
           <<73, 240, 14, 16, 47, 234, 186, 217, 175, 204, 184, 148, 236, 239, 58, 121>>
      [] m = <<47, 98, 47, 49, 118, 49>> ->  \* "/b/1v1"
           <<31, 239, 50, 44, 215, 40, 43, 219, 70, 182, 251, 199, 12, 164, 62, 39>>
      [] m = <<47, 98, 47, 49, 118, 50>> ->  \* "/b/1v2"
           <<184, 44, 152, 75, 86, 235, 41, 23, 56, 105, 188, 139, 194, 8, 172, 162>>
      [] m = <<47, 98, 47, 49, 118, 51>> ->  \* "/b/1v3"
           <<111, 86, 75, 36, 226, 171, 72, 23, 144, 251, 158, 27, 22, 104, 0, 45>>

\* ------------------------------------------------------- hash functions
\* "%02x" of one byte
HexDigit(n) == IF n < 10 THEN 48 + n ELSE 87 + n
Hex02(b) == <<HexDigit(b \div 16), HexDigit(b % 16)>>

\* base64.StdEncoding: the character of a 6-bit value
B64Char(n) ==
    IF n < 26 THEN 65 + n
    ELSE IF n < 52 THEN 71 + n
    ELSE IF n < 62 THEN n - 4
    ELSE IF n = 62 THEN 43
    ELSE 47

\* base64.StdEncoding.EncodeToString, with '=' padding
RECURSIVE Base64(_)
Base64(s) ==
    IF s = <<>> THEN <<>>
    ELSE IF Len(s) = 1 THEN
        <<B64Char(s[1] \div 4), B64Char((s[1] % 4) * 16), 61, 61>>
    ELSE IF Len(s) = 2 THEN
        <<B64Char(s[1] \div 4),
          B64Char((s[1] % 4) * 16 + s[2] \div 16),
          B64Char((s[2] % 16) * 4), 61>>
    ELSE
        <<B64Char(s[1] \div 4),
          B64Char((s[1] % 4) * 16 + s[2] \div 16),
          B64Char((s[2] % 16) * 4 + s[3] \div 64),
          B64Char(s[3] % 64)>> \o Base64(SubSeq(s, 4, Len(s)))

\* key2path: "/%02x/%02x/%s" of the first two digest bytes and base64(key)
key2path(key) ==
    LET mkey == MD5(key)
        b64key == Base64(key)
    IN  <<47>> \o Hex02(mkey[1]) \o <<47>> \o Hex02(mkey[2]) \o <<47>> \o b64key

\* the loop of key2volume from position i on; bestScore = <<>> is nil
RECURSIVE key2volumeFrom(_, _, _, _, _)
key2volumeFrom(key, vols, i, bestScore, ret) ==
    IF i > Len(vols) THEN ret
    ELSE LET v == vols[i]
             score == MD5(key \o v)
         IN  IF bestScore = <<>> \/ BytesCompare(bestScore, score) = 0 - 1
             THEN key2volumeFrom(key, vols, i + 1, score, v)
             ELSE key2volumeFrom(key, vols, i + 1, bestScore, ret)

\* placement by the position in the list: the first volume
key2volumeFirst(key, vols) == IF vols = <<>> THEN Empty ELSE vols[1]

\* placement by the key's hash modulo the number of volumes
key2volumeModulo(key, vols) ==
    IF vols = <<>> THEN Empty ELSE vols[(MD5(key)[1] % Len(vols)) + 1]

\* key2volume: the volume with the largest md5(key + volume)
key2volume(key, vols) == key2volumeFrom(key, vols, 1, <<>>, Empty)

\* "http://%s%s" of a volume and the key's path
HttpScheme == <<104, 116, 116, 112, 58, 47, 47>>
RemoteURL(volume, key) == HttpScheme \o volume \o key2path(key)

\* ------------------------------------------------------------ the inputs
\* the connections of the server: two requests are served at the same time
Reqs == {1, 2}
Methods == {"GET", "HEAD", "PUT", "DELETE", "POST"}
\* r.URL.RawQuery: none, the list modifier, an unrecognized modifier
Queries == {"", "list", "unlink"}
\* r.ContentLength
Lens == 0..MaxLen
\* the volume lists the server can be started with (os.Args[3])
Pools == {<<Vol1, Vol2>>, <<Vol1, Vol2, Vol3>>}
\* the largest list answer
ListLimit == 1000000
\* the lists that hold every member of a set once, and every volume list the
\* server can be started with out of AllVolumes
ListsOf(S) == {p \in [1..Cardinality(S) -> S] : {p[i] : i \in DOMAIN p} = S}
AllPools == UNION {ListsOf(S) : S \in SUBSET AllVolumes \ {{}}}

\* the values of err the handler tells apart
ErrNotFound == "leveldb.ErrNotFound"
ErrStore == "leveldb: error"
Nil == "nil"

VARIABLES
    db,        \* a.db: the records of the metadata store, key -> volume
    lock,      \* a.lock: the keys a PUT or DELETE holds
    volumes,   \* a.volumes
    blobs,     \* the URLs at which the volume servers hold a blob
    req        \* the requests being served: inputs, locals (kvolume or data,
               \* err), position, answer

vars == <<db, lock, volumes, blobs, req>>

\* a connection with no request on it
IdleReq ==
    [pc |-> "idle", method |-> "", key |-> Empty, query |-> "", len |-> 0,
     status |-> 0, location |-> Empty, body |-> <<>>, kvolume |-> Empty,
     err |-> Nil, unseen |-> Nil, advisory |-> FALSE]

\* the volumes a key is placed on under the pools
Placements(key) == {key2volume(key, p) : p \in Pools}

\* the blobs that go with the records of a store
BlobsOf(d) == {RemoteURL(d[k], k) : k \in DOMAIN d}

\* leveldb opened on an existing directory: the records of earlier runs, each
\* placed under one of the pools, and their blobs
Init ==
    /\ \E ks \in SUBSET Keys :
         db \in {d \in [ks -> AllVolumes] : \A k \in ks : d[k] \in Placements(k)}
    /\ lock = {}
    /\ volumes \in Pools
    /\ blobs = BlobsOf(db)
    /\ req = [r \in Reqs |-> IdleReq]

\* ------------------------------------------------------------ lock table
\* LockKey without the presence test
LockKeyNoTest(key) == [ok |-> TRUE, lock |-> lock \cup {key}]

\* App.LockKey, under a.mlock: the answer and the table it leaves
LockKey(key) ==
    IF key \in lock
    THEN [ok |-> FALSE, lock |-> lock]
    ELSE [ok |-> TRUE, lock |-> lock \cup {key}]

\* UnlockKey that leaves the entry in the table
UnlockKeyKeeps(key) == lock

\* App.UnlockKey, under a.mlock: the table it leaves
UnlockKey(key) == lock \ {key}

\* --------------------------------------------------------- metadata store
\* a.db.Get: the value and err it can return
DbGetOk(key) ==
    IF key \in DOMAIN db
    THEN {[value |-> db[key], err |-> Nil]}
    ELSE {[value |-> Empty, err |-> ErrNotFound]}
DbGet(key) == DbGetOk(key) \cup {[value |-> Empty, err |-> ErrStore]}

\* a.db.Put: the store after a write that returned err
DbPut(key, value, err) ==
    IF err = Nil
    THEN [k \in DOMAIN db \cup {key} |-> IF k = key THEN value ELSE db[k]]
    ELSE db

\* a.db.Delete: the store after a removal that returned err
DbDelete(key, err) ==
    IF err = Nil
    THEN [k \in DOMAIN db \ {key} |-> db[k]]
    ELSE db

\* the keys util.BytesPrefix(prefix) ranges over, in store order
RECURSIVE SortKeys(_)
SortKeys(S) ==
    IF S = {} THEN <<>>
    ELSE LET m == CHOOSE k \in S : \A o \in S : BytesCompare(k, o) <= 0
         IN  <<m>> \o SortKeys(S \ {m})
PrefixScan(prefix) == SortKeys({k \in DOMAIN db : HasPrefix(k, prefix)})

\* ---------------------------------------------------------------- steps
Set(r, rec) == req' = [req EXCEPT ![r] = rec]
At(r, pc) == req[r].pc = pc

\* a request arrives: net/http calls ServeHTTP; only a PUT carries a payload
Receive(r) ==
    /\ At(r, "idle")
    /\ \E m \in Methods, k \in Keys, q \in Queries, n \in Lens :
         /\ m # "PUT" => n = 0
         /\ Set(r, [IdleReq EXCEPT !.pc = "serve", !.method = m, !.key = k,
                                !.query = q, !.len = n])
    /\ UNCHANGED <<db, lock, volumes, blobs>>

\* the query string of a request that is not a GET is dropped
QueryDropped(r) ==
    /\ At(r, "serve")
    /\ req[r].query # ""
    /\ req[r].method # "GET"
    /\ Set(r, [req[r] EXCEPT !.query = ""])
    /\ UNCHANGED <<db, lock, volumes, blobs>>

\* a query string on a request that is not a GET
QueryForbidden(r) ==
    /\ At(r, "serve")
    /\ req[r].query # ""
    /\ req[r].method # "GET"
    /\ Set(r, [req[r] EXCEPT !.status = 403, !.pc = "done"])
    /\ UNCHANGED <<db, lock, volumes, blobs>>

\* the iterator of a range can fail after any number of its keys, or never
Never == 0 - 1
IterFailures(scan) == {Never} \cup (0..Len(scan))

\* iter.Next() after i - 1 keys: false at the end of the range and at the
\* failure of the iterator
IterNext(scan, failAt, i) == i <= Len(scan) /\ failAt # i - 1

\* the loop over the iterator: append the key, 413 once there are more than
\* limit keys; when Next() returns false the keys so far with 200, whether
\* the range ended or the iterator failed (err is iter.Error(), which the
\* code does not read)
RECURSIVE ListLoop(_, _, _, _, _)
ListLoop(scan, failAt, i, keys, limit) ==
    IF ~IterNext(scan, failAt, i)
    THEN [status |-> 200, body |-> keys,
          err |-> IF failAt = i - 1 THEN ErrStore ELSE Nil]
    ELSE LET more == Append(keys, scan[i])
         IN  IF Len(more) > limit
             THEN [status |-> 413, body |-> <<>>, err |-> Nil]
             ELSE ListLoop(scan, failAt, i + 1, more, limit)

\* the answer of ListQueryHandler under a limit
ListAnswerLimit(key, query, limit, failAt) ==
    IF query = "list"
    THEN ListLoop(PrefixScan(key), failAt, 1, <<>>, limit)
    ELSE [status |-> 403, body |-> <<>>, err |-> Nil]

\* the answer of ListQueryHandler
ListAnswer(key, query, failAt) == ListAnswerLimit(key, query, ListLimit, failAt)

\* a GET with a query string, under a limit
ListQueryLimited(r, limit) ==
    /\ At(r, "serve")
    /\ req[r].query # ""
    /\ req[r].method = "GET"
    /\ \E failAt \in IterFailures(PrefixScan(req[r].key)) :
         LET a == ListAnswerLimit(req[r].key, req[r].query, limit, failAt)
         IN  Set(r, [req[r] EXCEPT !.status = a.status, !.body = a.body,
                                   !.unseen = a.err, !.pc = "done"])
    /\ UNCHANGED <<db, lock, volumes, blobs>>

\* a GET with a query string: App.ListQueryHandler
ListQueryHandler(r) == ListQueryLimited(r, ListLimit)

\* every method takes the key's lock
LockingAll(method) == TRUE

\* the methods that take the key's lock
Locking(method) == method \in {"PUT", "DELETE"}

\* Lock with the UnlockKey deferred before LockKey is tried: the rejected
\* request releases the key as well
LockDeferFirst(r) ==
    /\ At(r, "serve")
    /\ req[r].query = ""
    /\ req[r].method \in {"PUT", "DELETE"}
    /\ LET l == LockKey(req[r].key)
       IN  IF ~l.ok
           THEN /\ Set(r, [req[r] EXCEPT !.status = 409, !.pc = "unlock"])
                /\ UNCHANGED lock
           ELSE /\ Set(r, [req[r] EXCEPT !.pc = "locked"])
                /\ lock' = l.lock
    /\ UNCHANGED <<db, volumes, blobs>>

\* PUT or DELETE: LockKey, and 409 when the key is held
Lock(r) ==
    /\ At(r, "serve")
    /\ req[r].query = ""
    /\ Locking(req[r].method)
    /\ LET l == LockKey(req[r].key)
       IN  IF ~l.ok
           THEN /\ Set(r, [req[r] EXCEPT !.status = 409, !.pc = "done"])
                /\ UNCHANGED lock
           ELSE /\ Set(r, [req[r] EXCEPT !.pc = "locked"])
                /\ lock' = l.lock
    /\ UNCHANGED <<db, volumes, blobs>>

\* the answer of GET and HEAD to what a.db.Get returned
FetchAnswer(key, got) ==
    IF got.err = ErrNotFound
    THEN [status |-> 404, location |-> Empty, advisory |-> FALSE]
    ELSE [status |-> 302, location |-> RemoteURL(got.value, key),
          advisory |-> got.value # key2volume(key, volumes)]

\* GET or HEAD without query
Fetch(r, got) ==
    /\ At(r, "serve")
    /\ req[r].query = ""
    /\ req[r].method \in {"GET", "HEAD"}
    /\ got \in DbGet(req[r].key)
    /\ LET a == FetchAnswer(req[r].key, got)
       IN  Set(r, [req[r] EXCEPT !.err = got.err, !.status = a.status,
                                 !.location = a.location,
                                 !.advisory = a.advisory, !.pc = "done"])
    /\ UNCHANGED <<db, lock, volumes, blobs>>

\* any other method without query: no case of the switch, net/http answers 200
OtherMethod(r) ==
    /\ At(r, "serve")
    /\ req[r].query = ""
    /\ req[r].method \notin {"GET", "HEAD", "PUT", "DELETE"}
    /\ Set(r, [req[r] EXCEPT !.status = 200, !.pc = "done"])
    /\ UNCHANGED <<db, lock, volumes, blobs>>

\* PUT with Content-Length 0
PutEmpty(r) ==
    /\ At(r, "locked")
    /\ req[r].method = "PUT"
    /\ req[r].len = 0
    /\ Set(r, [req[r] EXCEPT !.status = 411, !.pc = "unlock"])
    /\ UNCHANGED <<db, lock, volumes, blobs>>

\* PUT that goes on to store whatever the lookup returned
PutCheckOverwrites(r, got) ==
    /\ At(r, "locked")
    /\ req[r].method = "PUT"
    /\ req[r].len # 0
    /\ got \in DbGet(req[r].key)
    /\ Set(r, [req[r] EXCEPT !.err = got.err,
                             !.kvolume = key2volume(req[r].key, volumes),
                             !.pc = "remote_put"])
    /\ UNCHANGED <<db, lock, volumes, blobs>>

\* PUT: the lookup; 403 unless the key is not found, else the placement
PutCheck(r, got) ==
    /\ At(r, "locked")
    /\ req[r].method = "PUT"
    /\ req[r].len # 0
    /\ got \in DbGet(req[r].key)
    /\ IF got.err # ErrNotFound
       THEN Set(r, [req[r] EXCEPT !.err = got.err, !.status = 403,
                                  !.pc = "unlock"])
       ELSE Set(r, [req[r] EXCEPT !.err = got.err,
                                  !.kvolume = key2volume(req[r].key, volumes),
                                  !.pc = "remote_put"])
    /\ UNCHANGED <<db, lock, volumes, blobs>>

\* remote_put: the volume server stores the blob, or the call fails
RemotePut(r, ok) ==
    /\ At(r, "remote_put")
    /\ IF ok
       THEN /\ blobs' = blobs \cup {RemoteURL(req[r].kvolume, req[r].key)}
            /\ Set(r, [req[r] EXCEPT !.pc = "db_put"])
       ELSE /\ blobs' = blobs
            /\ Set(r, [req[r] EXCEPT !.status = 500, !.pc = "unlock"])
    /\ UNCHANGED <<db, lock, volumes>>

\* PUT: the record write, 201 or 500
PutRecord(r, err) ==
    /\ At(r, "db_put")
    /\ db' = DbPut(req[r].key, req[r].kvolume, err)
    /\ Set(r, [req[r] EXCEPT !.err = err,
                             !.status = IF err = Nil THEN 201 ELSE 500,
                             !.pc = "unlock"])
    /\ UNCHANGED <<lock, volumes, blobs>>

\* DELETE that goes on to the removal whatever the lookup returned
DeleteCheckGoesOn(r, got) ==
    /\ At(r, "locked")
    /\ req[r].method = "DELETE"
    /\ got \in DbGet(req[r].key)
    /\ Set(r, [req[r] EXCEPT !.err = got.err, !.kvolume = got.value,
                             !.pc = "db_delete"])
    /\ UNCHANGED <<db, lock, volumes, blobs>>

\* DELETE: the lookup; 404 when the key is not found
DeleteCheck(r, got) ==
    /\ At(r, "locked")
    /\ req[r].method = "DELETE"
    /\ got \in DbGet(req[r].key)
    /\ IF got.err = ErrNotFound
       THEN Set(r, [req[r] EXCEPT !.err = got.err, !.status = 404,
                                  !.pc = "unlock"])
       ELSE Set(r, [req[r] EXCEPT !.err = got.err, !.kvolume = got.value,
                                  !.pc = "db_delete"])
    /\ UNCHANGED <<db, lock, volumes, blobs>>

\* DELETE: the record removal; the handler drops its err and goes on (unseen
\* keeps what a.db.Delete returned)
DeleteRecord(r, err) ==
    /\ At(r, "db_delete")
    /\ db' = DbDelete(req[r].key, err)
    /\ Set(r, [req[r] EXCEPT !.unseen = err, !.pc = "remote_delete"])
    /\ UNCHANGED <<lock, volumes, blobs>>

\* remote_delete whose error is dropped: 204 whatever the volume server did
RemoteDeleteUnchecked(r, ok) ==
    /\ At(r, "remote_delete")
    /\ LET remote == RemoteURL(req[r].kvolume, req[r].key)
       IN  blobs' = IF ok THEN blobs \ {remote} ELSE blobs
    /\ Set(r, [req[r] EXCEPT !.status = 204, !.pc = "unlock"])
    /\ UNCHANGED <<db, lock, volumes>>

\* remote_delete: 204 from the volume server that holds the blob, else an error
RemoteDelete(r, ok) ==
    /\ At(r, "remote_delete")
    /\ LET remote == RemoteURL(req[r].kvolume, req[r].key)
       IN  IF ok
           THEN /\ remote \in blobs
                /\ blobs' = blobs \ {remote}
                /\ Set(r, [req[r] EXCEPT !.status = 204, !.pc = "unlock"])
           ELSE /\ blobs' = blobs
                /\ Set(r, [req[r] EXCEPT !.status = 500, !.pc = "unlock"])
    /\ UNCHANGED <<db, lock, volumes>>

\* the deferred UnlockKey; the answer leaves the server after it
Unlock(r) ==
    /\ At(r, "unlock")
    /\ lock' = UnlockKey(req[r].key)
    /\ Set(r, [req[r] EXCEPT !.pc = "done"])
    /\ UNCHANGED <<db, volumes, blobs>>

\* the answer is with the client; the connection takes the next request
Finish(r) ==
    /\ At(r, "done")
    /\ Set(r, IdleReq)
    /\ UNCHANGED <<db, lock, volumes, blobs>>

Errs == {Nil, ErrStore}
GetResults == [value : AllVolumes \cup {Empty}, err : {Nil, ErrNotFound, ErrStore}]

Next ==
    \E r \in DOMAIN req :
        \/ Receive(r)
        \/ QueryForbidden(r)
        \/ ListQueryHandler(r)
        \/ Lock(r)
        \/ \E got \in GetResults : Fetch(r, got)
        \/ OtherMethod(r)
        \/ PutEmpty(r)
        \/ \E got \in GetResults : PutCheck(r, got)
        \/ \E ok \in BOOLEAN : RemotePut(r, ok)
        \/ \E err \in Errs : PutRecord(r, err)
        \/ \E got \in GetResults : DeleteCheck(r, got)
        \/ \E err \in Errs : DeleteRecord(r, err)
        \/ \E ok \in BOOLEAN : RemoteDelete(r, ok)
        \/ Unlock(r)
        \/ Finish(r)

Spec == Init /\ [][Next]_vars

\* the server started on an empty store
EmptyInit ==
    /\ db = <<>>
    /\ lock = {}
    /\ volumes \in Pools
    /\ blobs = {}
    /\ req = [r \in Reqs |-> IdleReq]

EmptySpec == EmptyInit /\ [][Next]_vars

\* NumRacers PUT requests with a payload arrive together on an empty store;
\* the metadata store and the volume servers work
Racers == 1..NumRacers
RaceInit ==
    /\ db = <<>>
    /\ lock = {}
    /\ volumes \in Pools
    /\ blobs = {}
    /\ req \in [Racers -> {[IdleReq EXCEPT !.pc = "serve", !.method = "PUT",
                                          !.key = k, !.len = n] :
                            k \in Keys, n \in 1..MaxLen}]

RaceNext ==
    \E r \in DOMAIN req :
        \/ Lock(r)
        \/ \E got \in DbGetOk(req[r].key) : PutCheck(r, got)
        \/ RemotePut(r, TRUE)
        \/ PutRecord(r, Nil)
        \/ Unlock(r)

RaceSpec == RaceInit /\ [][RaceNext]_vars

\* a new store under any volume list: creates and fetches of PlaceKeys arrive
PlaceInit ==
    /\ db = <<>>
    /\ lock = {}
    /\ volumes \in AllPools
    /\ blobs = {}
    /\ req \in [Reqs -> {[IdleReq EXCEPT !.pc = "serve", !.method = m,
                                        !.key = k,
                                        !.len = IF m = "PUT" THEN 1 ELSE 0] :
                          k \in PlaceKeys, m \in {"PUT", "GET"}}]

PlaceNext ==
    \/ RaceNext
    \/ \E r \in DOMAIN req : \E got \in DbGetOk(req[r].key) : Fetch(r, got)

PlaceSpec == PlaceInit /\ [][PlaceNext]_vars

\* creates and deletes have arrived on a store that holds records; the store
\* does not fail, the volume servers may
LiveInit ==
    /\ \E ks \in SUBSET Keys :
         db \in {d \in [ks -> AllVolumes] : \A k \in ks : d[k] \in Placements(k)}
    /\ lock = {}
    /\ volumes \in Pools
    /\ blobs = BlobsOf(db)
    /\ req \in [Reqs -> {[IdleReq EXCEPT !.pc = "serve", !.method = m,
                                        !.key = k,
                                        !.len = IF m = "PUT" THEN 1 ELSE 0] :
                          k \in Keys, m \in {"PUT", "DELETE"}}]

\* the steps the handler takes by itself
HandlerStep(r) ==
    \/ Lock(r)
    \/ \E got \in DbGetOk(req[r].key) : PutCheck(r, got)
    \/ PutRecord(r, Nil)
    \/ \E got \in DbGetOk(req[r].key) : DeleteCheck(r, got)
    \/ DeleteRecord(r, Nil)
    \/ Unlock(r)

\* the return of http.DefaultClient.Do: the answer of the volume server or an
\* error of the connection
BackendAnswer(r) ==
    \/ \E ok \in BOOLEAN : RemotePut(r, ok)
    \/ \E ok \in BOOLEAN : RemoteDelete(r, ok)

LiveNext == \E r \in DOMAIN req : HandlerStep(r) \/ BackendAnswer(r)

\* a goroutine that can take a step takes it; http.DefaultClient has no
\* Timeout, so nothing makes a call to a volume server return
LiveSpec ==
    /\ LiveInit
    /\ [][LiveNext]_vars
    /\ \A r \in Reqs : WF_vars(HandlerStep(r))

\* two list requests arrive on a store that holds some of ListKeys; the limit
\* is ScaledLimit
ListInit ==
    /\ \E ks \in SUBSET ListKeys :
         db \in {d \in [ks -> AllVolumes] : \A k \in ks : d[k] \in Placements(k)}
    /\ lock = {}
    /\ volumes \in Pools
    /\ blobs = BlobsOf(db)
    /\ req \in [Reqs -> {[IdleReq EXCEPT !.pc = "serve", !.method = "GET",
                                        !.key = p, !.query = "list"] :
                          p \in Prefixes}]

ListNext == \E r \in DOMAIN req : ListQueryLimited(r, ScaledLimit)

ListSpec == ListInit /\ [][ListNext]_vars

\* ---------------------------------------------------------------- claims
\* a request between its successful LockKey and its UnlockKey
Holding(r) ==
    req[r].pc \in {"locked", "remote_put", "db_put", "db_delete",
                   "remote_delete", "unlock"}
IsCreate(r) == req[r].method = "PUT" /\ req[r].query = ""
IsDelete(r) == req[r].method = "DELETE" /\ req[r].query = ""
\* the request has its answer
Answered(r) == req[r].pc = "done"
\* request r takes a step
Steps(r) == req'[r] # req[r]

\* C1: for every key, at most one PUT or DELETE is between its successful
\* LockKey and its UnlockKey, in every reachable state.
C1_MutualExclusion ==
    \A r1, r2 \in DOMAIN req :
        (r1 # r2 /\ Holding(r1) /\ Holding(r2)) => req[r1].key # req[r2].key

\* a PUT past its remote_put holds the key while a DELETE of the same key has
\* been turned away
C1_Witness ==
    \E r1, r2 \in DOMAIN req :
        /\ IsCreate(r1) /\ req[r1].pc = "db_put"
        /\ IsDelete(r2) /\ Answered(r2) /\ req[r2].status = 409
        /\ req[r1].key = req[r2].key

\* C8: the lock table holds exactly the keys of the requests between LockKey
\* and UnlockKey: a PUT or DELETE that has its answer, whatever the answer,
\* holds nothing, and a key no PUT or DELETE is working on is not in the table.
C8_LockReleased ==
    /\ lock = {req[r].key : r \in {q \in DOMAIN req : Holding(q)}}
    /\ \A r \in DOMAIN req :
         (Answered(r) /\ (IsCreate(r) \/ IsDelete(r)))
            => \/ req[r].key \notin lock
               \/ \E o \in DOMAIN req : o # r /\ Holding(o) /\ req[o].key = req[r].key

\* both connections hold an answered request that went through the lock, a
\* PUT answered 500 and a DELETE answered 404, and the table is empty
C8_Witness ==
    /\ lock = {}
    /\ \E r1, r2 \in DOMAIN req :
         /\ r1 # r2
         /\ IsCreate(r1) /\ Answered(r1) /\ req[r1].status = 500
         /\ IsDelete(r2) /\ Answered(r2) /\ req[r2].status = 404

\* C10: a PUT or DELETE that finds its key held is answered 409 in that one
\* step, which changes neither the lock table nor the store nor the blobs; it
\* never comes to the deferred UnlockKey, so a request answered 409 is done.
C10_ConflictStep ==
    \A r \in DOMAIN req :
        /\ (/\ req[r].pc = "serve" /\ req[r].query = ""
            /\ req[r].method \in {"PUT", "DELETE"}
            /\ req[r].key \in lock /\ Steps(r))
              => /\ req'[r].status = 409
                 /\ req'[r].pc = "done"
                 /\ lock' = lock
                 /\ db' = db
                 /\ blobs' = blobs
        /\ (req[r].status = 409 /\ Steps(r)) => (req'[r] = IdleReq /\ lock' = lock)
C10_ConflictNoTrace == [][C10_ConflictStep]_vars

\* a DELETE was answered 409 and the PUT that holds the key still holds it
C10_Witness ==
    \E r1, r2 \in DOMAIN req :
        /\ IsDelete(r1) /\ Answered(r1) /\ req[r1].status = 409
        /\ Holding(r2) /\ req[r2].key = req[r1].key
        /\ req[r1].key \in lock

\* the racing PUT requests for key k
RacersOf(k) == {r \in DOMAIN req : req[r].key = k}
Created(k) == {r \in RacersOf(k) : req[r].status = 201}

\* C2 as stated: of the PUT requests with a payload that arrive together for
\* an absent key, one is answered 201 and every other one 409.
C2_OneCreatedOthersConflict ==
    \A k \in Keys :
        (Cardinality(RacersOf(k)) >= 2 /\ \A r \in RacersOf(k) : Answered(r))
          => \E w \in RacersOf(k) :
                /\ req[w].status = 201
                /\ \A o \in RacersOf(k) \ {w} : req[o].status = 409

\* C2 amended: at most one of them is ever answered 201; when all have their
\* answer exactly one has 201 and every other one has 409 (it tried the lock
\* while it was held) or 403 (it took the lock after the record was written),
\* and the record is the volume the 201 request wrote.
C2_OneCreated ==
    \A k \in Keys :
        /\ Cardinality(Created(k)) <= 1
        /\ \A w \in Created(k) : k \in DOMAIN db /\ db[k] = req[w].kvolume
        /\ (Cardinality(RacersOf(k)) >= 2 /\ \A r \in RacersOf(k) : Answered(r))
             => \E w \in RacersOf(k) :
                   /\ req[w].status = 201
                   /\ \A o \in RacersOf(k) \ {w} : req[o].status \in {409, 403}

\* three PUT requests for one key have their answers: 201, 409 and 403
C2_Witness ==
    \E k \in Keys :
        /\ \A r \in RacersOf(k) : Answered(r)
        /\ {req[r].status : r \in RacersOf(k)} = {201, 409, 403}
        /\ db[k] = key2volume(k, volumes)

\* the record of a key is the same before and after the step, if it has one
RecordsKept == \A k \in DOMAIN db \cap DOMAIN db' : db'[k] = db[k]

\* C3 as stated: a PUT that took the lock of a key that has a record is
\* answered 403, calls no volume server and writes nothing; no step changes
\* the value of a record.
C3_ForbiddenStep ==
    /\ RecordsKept
    /\ \A r \in DOMAIN req :
         (/\ IsCreate(r) /\ req[r].pc = "locked"
          /\ req[r].key \in DOMAIN db /\ Steps(r))
            => /\ req'[r].status = 403
               /\ req'[r].pc = "unlock"
               /\ db' = db
               /\ blobs' = blobs
C3_CreateForbidden == [][C3_ForbiddenStep]_vars

\* C3 amended: as above for a PUT whose Content-Length is not 0; one with
\* Content-Length 0 is answered 411 instead, with the same frame.
C3_NoOverwriteStep ==
    /\ RecordsKept
    /\ \A r \in DOMAIN req :
         (/\ IsCreate(r) /\ req[r].pc = "locked"
          /\ req[r].key \in DOMAIN db /\ Steps(r))
            => /\ req'[r].status = IF req[r].len = 0 THEN 411 ELSE 403
               /\ req'[r].pc = "unlock"
               /\ db' = db
               /\ blobs' = blobs
C3_NoOverwrite == [][C3_NoOverwriteStep]_vars

\* a PUT with a payload was answered 403 for a key whose record names a volume
\* other than the key's placement, and the record is still that one
C3_Witness ==
    \E r \in DOMAIN req :
        /\ IsCreate(r) /\ req[r].len # 0
        /\ Answered(r) /\ req[r].status = 403
        /\ req[r].key \in DOMAIN db
        /\ db[req[r].key] # key2volume(req[r].key, volumes)

\* C6: a PUT with Content-Length 0 is answered 411 in every state, also while
\* another create or delete holds its key.
C6_AlwaysLengthRequired ==
    \A r \in DOMAIN req :
        (IsCreate(r) /\ req[r].len = 0 /\ Answered(r)) => req[r].status = 411

\* C7: the step of a PUT that returns from remote_put never changes the store,
\* and the key has no record; when the blob is not on the volume server after
\* the call, the call failed, and the PUT is answered 500 and goes to its
\* UnlockKey; a PUT answered 500 that unlocks leaves the key without record and
\* out of the lock table; and a PUT with a payload that has the lock of a key
\* without record, as a later create of that key has, is not answered 403.
C7_BackendFailureStep ==
    \A r \in DOMAIN req :
        /\ (req[r].pc = "remote_put" /\ Steps(r))
             => /\ db' = db
                /\ req[r].key \notin DOMAIN db
                /\ req'[r].pc \in {"db_put", "unlock"}
                /\ req'[r].pc = "db_put" => req'[r].status = 0
                /\ (\/ req'[r].pc = "unlock"
                    \/ RemoteURL(req[r].kvolume, req[r].key) \notin blobs')
                     => /\ req'[r].pc = "unlock"
                        /\ req'[r].status = 500
                        /\ blobs' = blobs
        /\ (IsCreate(r) /\ req[r].pc = "unlock" /\ req[r].status = 500 /\ Steps(r))
             => /\ req'[r].pc = "done"
                /\ req[r].key \notin DOMAIN db'
                /\ req[r].key \notin lock'
        /\ (/\ IsCreate(r) /\ req[r].pc = "locked" /\ req[r].len # 0
            /\ req[r].key \notin DOMAIN db /\ Steps(r))
             => req'[r].status # 403
C7_BackendFailure == [][C7_BackendFailureStep]_vars

\* GET or HEAD without query, or GET with the list modifier
IsFetch(r) == req[r].method \in {"GET", "HEAD"} /\ req[r].query = ""
IsList(r) == req[r].method = "GET" /\ req[r].query = "list"

\* C9: a fetch or a list request is answered in one step that leaves the lock
\* table alone, whether or not its key is held; the answer is never 409 and is
\* decided by the store: 404 only for a key without record, a redirect to the
\* volume of the record (or to no volume when the lookup failed), the keys
\* with the prefix in store order (or the first of them when the iterator
\* failed).
C9_ReadStep ==
    \A r \in DOMAIN req :
        ((IsFetch(r) \/ IsList(r)) /\ Steps(r) /\ req[r].pc # "done")
          => /\ req[r].pc = "serve"
             /\ req'[r].pc = "done"
             /\ lock' = lock
             /\ req'[r].status # 409
             /\ IsFetch(r) =>
                  \/ /\ req'[r].status = 404
                     /\ req[r].key \notin DOMAIN db
                  \/ /\ req'[r].status = 302
                     /\ req[r].key \in DOMAIN db
                     /\ req'[r].location = RemoteURL(db[req[r].key], req[r].key)
                  \/ /\ req'[r].status = 302
                     /\ req'[r].location = RemoteURL(Empty, req[r].key)
             /\ IsList(r) =>
                  /\ req'[r].status = 200
                  /\ \/ req'[r].body = PrefixScan(req[r].key)
                     \/ /\ req'[r].unseen = ErrStore
                        /\ Len(req'[r].body) <= Len(PrefixScan(req[r].key))
                        /\ req'[r].body
                             = SubSeq(PrefixScan(req[r].key), 1,
                                      Len(req'[r].body))
C9_ReadsNotLocked == [][C9_ReadStep]_vars

\* a GET was answered with the redirect while a DELETE of its key holds the lock
C9_Witness ==
    \E r1, r2 \in DOMAIN req :
        /\ IsFetch(r1) /\ Answered(r1) /\ req[r1].status = 302
        /\ IsDelete(r2) /\ req[r2].pc = "db_delete"
        /\ req[r2].key = req[r1].key
        /\ req[r1].key \in lock

\* C4: on a server started on an empty store every record is the placement of
\* its key under a.volumes, and a fetch of a key that has a record is answered
\* with the redirect to the key's placement and path, without the advisory.
C4_FetchStep ==
    /\ \A k \in DOMAIN db' : db'[k] = key2volume(k, volumes)
    /\ \A r \in DOMAIN req :
         (IsFetch(r) /\ req[r].pc = "serve" /\ Steps(r) /\ req[r].key \in DOMAIN db)
           => /\ req'[r].status = 302
              /\ req'[r].location
                   = RemoteURL(key2volume(req[r].key, volumes), req[r].key)
              /\ ~req'[r].advisory
C4_CreateThenFetch == [][C4_FetchStep]_vars

\* C5: when a DELETE answered 204 releases its key the key has no record, and
\* a fetch of a key without record is answered 404.
C5_DeleteStep ==
    \A r \in DOMAIN req :
        /\ (/\ IsDelete(r) /\ req[r].pc = "unlock" /\ req[r].status = 204
            /\ Steps(r))
             => req[r].key \notin DOMAIN db'
        /\ (/\ IsFetch(r) /\ req[r].pc = "serve" /\ Steps(r)
            /\ req[r].key \notin DOMAIN db)
             => req'[r].status = 404
C5_DeleteThenFetch == [][C5_DeleteStep]_vars

\* C11 as stated: a DELETE that took the lock of a key without record is
\* answered 404 in its next step, which changes nothing.
C11_NotFoundStep ==
    \A r \in DOMAIN req :
        (/\ IsDelete(r) /\ req[r].pc = "locked"
         /\ req[r].key \notin DOMAIN db /\ Steps(r))
           => /\ req'[r].status = 404
              /\ req'[r].pc = "unlock"
              /\ db' = db /\ blobs' = blobs /\ lock' = lock
C11_DeleteAbsentNotFound == [][C11_NotFoundStep]_vars

\* a DELETE of a key without record whose lookup failed: it holds no volume
FailedLookup(r) ==
    /\ IsDelete(r)
    /\ req[r].pc \in {"db_delete", "remote_delete", "unlock"}
    /\ req[r].err = ErrStore
    /\ req[r].key \notin DOMAIN db

\* C11 amended: a DELETE that took the lock of a key without record is
\* answered 404 when its lookup returns not-found, and 500 when its lookup
\* fails; none of its steps changes the store or the blobs, and its UnlockKey
\* leaves the key out of the lock table.
C11_DeleteAbsentStep ==
    \A r \in DOMAIN req :
        /\ (/\ IsDelete(r) /\ req[r].pc = "locked"
            /\ req[r].key \notin DOMAIN db /\ Steps(r))
              => /\ db' = db /\ blobs' = blobs /\ lock' = lock
                 /\ req'[r].err \in {ErrNotFound, ErrStore}
                 /\ req'[r].err = ErrNotFound =>
                      req'[r].pc = "unlock" /\ req'[r].status = 404
                 /\ req'[r].err = ErrStore =>
                      req'[r].pc = "db_delete" /\ req'[r].kvolume = Empty
        /\ (FailedLookup(r) /\ Steps(r))
              => /\ db' = db /\ blobs' = blobs
                 /\ req[r].pc = "remote_delete" =>
                      req'[r].pc = "unlock" /\ req'[r].status = 500
        /\ (/\ IsDelete(r) /\ req[r].pc = "unlock" /\ Steps(r)
            /\ (req[r].status = 404 \/ FailedLookup(r)))
              => /\ req'[r].pc = "done"
                 /\ req[r].status \in {404, 500}
                 /\ req[r].key \notin lock'
                 /\ req[r].key \notin DOMAIN db'
C11_DeleteAbsent == [][C11_DeleteAbsentStep]_vars

\* a DELETE was answered 404: the key has no record and is not held, and the
\* blob an earlier failed request left for the key is still there
C11_Witness ==
    \E r \in DOMAIN req :
        /\ IsDelete(r) /\ Answered(r) /\ req[r].status = 404
        /\ req[r].key \notin DOMAIN db
        /\ req[r].key \notin lock
        /\ \E v \in AllVolumes : RemoteURL(v, req[r].key) \in blobs

\* C12: a request with a query string other than GET with the list modifier is
\* answered 403 in one step that leaves the lock table, the store and the
\* blobs as they are, also when its key has a record or is held.
C12_BadModifierStep ==
    \A r \in DOMAIN req :
        (/\ req[r].pc = "serve" /\ req[r].query # ""
         /\ ~IsList(r) /\ Steps(r))
           => /\ req'[r].status = 403
              /\ req'[r].pc = "done"
              /\ req'[r].body = <<>> /\ req'[r].location = Empty
              /\ lock' = lock /\ db' = db /\ blobs' = blobs
C12_BadModifier == [][C12_BadModifierStep]_vars

\* a PUT with a query string and a GET with an unrecognized modifier were
\* answered 403 for a key that has a record; the record is there
C12_Witness ==
    \E r1, r2 \in DOMAIN req :
        /\ req[r1].method = "PUT" /\ req[r1].query = "list" /\ req[r1].len # 0
        /\ Answered(r1) /\ req[r1].status = 403
        /\ req[r2].method = "GET" /\ req[r2].query = "unlink"
        /\ Answered(r2) /\ req[r2].status = 403
        /\ req[r1].key = req[r2].key
        /\ req[r1].key \in DOMAIN db

\* the keys with a record that start with the prefix
Matching(prefix) == {k \in DOMAIN db : HasPrefix(k, prefix)}

\* the sequence holds exactly the keys of S, in increasing byte order
InStoreOrder(body, S) ==
    /\ Len(body) = Cardinality(S)
    /\ {body[i] : i \in 1..Len(body)} = S
    /\ \A i, j \in 1..Len(body) : i < j => BytesCompare(body[i], body[j]) = 0 - 1

\* C13: a list request is answered in one step that leaves the store alone:
\* with 200 and exactly the keys that have a record and start with the prefix,
\* in store order, when they are at most the limit, and with 413 and no key
\* when they are more.
C13_ListStep ==
    \A r \in DOMAIN req :
        (IsList(r) /\ req[r].pc = "serve" /\ Steps(r))
          => /\ db' = db /\ blobs' = blobs /\ lock' = lock
             /\ req'[r].pc = "done"
             /\ IF Cardinality(Matching(req[r].key)) > ScaledLimit
                THEN req'[r].status = 413 /\ req'[r].body = <<>>
                ELSE /\ req'[r].status = 200
                     /\ InStoreOrder(req'[r].body, Matching(req[r].key))
C13_ListExact == [][C13_ListStep]_vars

\* the members of the volume list
Pool == {volumes[i] : i \in DOMAIN volumes}

\* a create that has chosen its volume: past key2volume
Placed(r) == IsCreate(r) /\ req[r].pc \in {"remote_put", "db_put"}

\* v has the largest md5(key + volume) of the set
LargestScore(key, v, S) ==
    /\ v \in S
    /\ \A w \in S \ {v} : BytesCompare(MD5(key \o w), MD5(key \o v)) = 0 - 1

\* C14: the volume a create chooses is a member of the pool, the one with the
\* largest score of key + volume, and the one key2volume returns for every
\* order of the pool; a later fetch of the key computes the same volume as
\* the record holds (no rebalance advisory).
C14_PlacementOrderFree ==
    /\ \A r \in DOMAIN req :
         Placed(r)
           => /\ req[r].kvolume \in Pool
              /\ LargestScore(req[r].key, req[r].kvolume, Pool)
              /\ \A p \in ListsOf(Pool) :
                   key2volume(req[r].key, p) = req[r].kvolume
    /\ \A r \in DOMAIN req :
         (IsFetch(r) /\ Answered(r) /\ req[r].status = 302)
           => /\ ~req[r].advisory
              /\ req[r].location = RemoteURL(key2volume(req[r].key, volumes),
                                             req[r].key)

\* "/a/1" was created under the list v2, v3, v1 on v3, the last but one of
\* the list, and a fetch of it was redirected there
C14_Witness ==
    /\ volumes = <<Vol2, Vol3, Vol1>>
    /\ \E r1, r2 \in DOMAIN req :
         /\ req[r1].key = KeyA1 /\ IsCreate(r1) /\ req[r1].status = 201
         /\ req[r1].kvolume = Vol3
         /\ req[r2].key = KeyA1 /\ IsFetch(r2) /\ req[r2].status = 302
         /\ req[r2].location = RemoteURL(Vol3, KeyA1)

\* C15: with a volume other than the chosen one removed from the pool the key
\* keeps its volume, and with one volume added the key keeps its volume or
\* moves to the added one.
C15_MinimalDisruption ==
    \A r \in DOMAIN req :
        Placed(r)
          => /\ \A b \in Pool \ {req[r].kvolume} :
                  \A p \in ListsOf(Pool \ {b}) :
                      key2volume(req[r].key, p) = req[r].kvolume
             /\ \A b \in AllVolumes \ Pool :
                  \A p \in ListsOf(Pool \cup {b}) :
                      key2volume(req[r].key, p) \in {req[r].kvolume, b}

\* under the pool v1, v2 both "/a" and "/a/1" are placed on v1; with v3 added
\* "/a" stays and "/a/1" moves to v3; with v2 removed both stay
C15_Witness ==
    /\ Pool = {Vol1, Vol2}
    /\ \E r1, r2 \in DOMAIN req :
         /\ Placed(r1) /\ req[r1].key = KeyA /\ req[r1].kvolume = Vol1
         /\ Placed(r2) /\ req[r2].key = KeyA1 /\ req[r2].kvolume = Vol1
         /\ key2volume(KeyA, <<Vol1, Vol2, Vol3>>) = Vol1
         /\ key2volume(KeyA1, <<Vol1, Vol2, Vol3>>) = Vol3
         /\ key2volume(KeyA, <<Vol1>>) = Vol1

\* C16: a request whose metadata-store operation failed is answered 500, and
\* a DELETE whose record removal failed does not go on to the volume server.
C16_StoreErrorStep ==
    \A r \in DOMAIN req :
        Steps(r)
          => /\ (/\ req[r].pc \in {"serve", "locked", "db_put", "remote_delete"}
                 /\ req'[r].pc \in {"unlock", "done"}
                 /\ req'[r].err = ErrStore)
                  => req'[r].status = 500
             /\ (/\ req[r].pc = "db_delete"
                 /\ req[r].key \in DOMAIN db /\ req[r].key \in DOMAIN db')
                  => /\ req'[r].pc = "unlock"
                     /\ req'[r].status = 500
C16_StoreErrorsFail == [][C16_StoreErrorStep]_vars

\* C17: a DELETE removes the record of the volume it goes on to call, the
\* record is gone while the volume server is called and after, whatever the
\* volume server answers, and a fetch of a key without record is answered 404.
C17_DeleteOrderStep ==
    \A r \in DOMAIN req :
        Steps(r)
          => /\ (/\ IsDelete(r) /\ req[r].pc = "db_delete"
                 /\ req[r].key \in DOMAIN db)
                  => /\ req[r].kvolume = db[req[r].key]
                     /\ req[r].key \notin DOMAIN db'
                     /\ blobs' = blobs
             /\ (IsDelete(r) /\ req[r].pc \in {"remote_delete", "unlock"})
                  => (req[r].key \notin DOMAIN db /\ req[r].key \notin DOMAIN db')
             /\ (/\ IsFetch(r) /\ req[r].pc = "serve"
                 /\ req[r].key \notin DOMAIN db)
                  => req'[r].status = 404
C17_DeleteOrder == [][C17_DeleteOrderStep]_vars

\* C19: from an empty store on, the volume a record names holds the key's
\* blob.
C19_NoDanglingRecord ==
    \A k \in DOMAIN db : RemoteURL(db[k], k) \in blobs

\* C18: a request that holds a key's lock releases it at some time.
C18_LockReleasedAtLast ==
    \A r \in Reqs : Holding(r) ~> ~Holding(r)

\* the volumes that hold a blob of the key, the volume its record names, and
\* the volumes that hold a blob of the key the record does not name
BlobURL == [k \in PlaceKeys, v \in AllVolumes |-> RemoteURL(v, k)]
BlobVols(k) == {v \in AllVolumes : BlobURL[k, v] \in blobs}
RecVols(k) == IF k \in DOMAIN db THEN {db[k]} ELSE {}
Stray(k) == BlobVols(k) \ RecVols(k)

\* the step of the request is a metadata-store operation or a call to a
\* volume server that fails
Failed(r) ==
    \/ req[r].pc \in {"serve", "locked", "db_put"} /\ req'[r].err = ErrStore
    \/ req[r].pc \in {"serve", "db_delete"} /\ req'[r].unseen = ErrStore
    \/ req[r].pc \in {"remote_put", "remote_delete"} /\ req'[r].status = 500

\* blobs and record of the key agree, up to the create or delete that holds
\* the key's lock: between remote_put and a.db.Put, and between a.db.Delete
\* and remote_delete, the blob is there and the record is not; and no store
\* operation of that create or delete has failed
Agree(k) ==
    /\ \A r \in DOMAIN req :
         (Holding(r) /\ req[r].key = k)
           => (req[r].err # ErrStore /\ req[r].unseen # ErrStore)
    /\ IF \E r \in DOMAIN req :
              req[r].key = k /\ req[r].pc \in {"db_put", "remote_delete"}
       THEN \A r \in DOMAIN req :
                (req[r].key = k /\ req[r].pc \in {"db_put", "remote_delete"})
                  => (RecVols(k) = {} /\ BlobVols(k) = {req[r].kvolume})
       ELSE BlobVols(k) = RecVols(k)

\* C20: blobs no record names appear only in the step of a create that
\* stored its blob and in the step of a delete that removed its record, both
\* for the request's own key; the blob of a create answered 201 is named by
\* the record, and the blob of a delete answered 204 is gone, so what stays
\* without a record stays after a failed record write or a failed backend
\* remove. And a step in which nothing fails keeps blobs and records of every
\* key in agreement.
C20_OrphanStep ==
    /\ \A k \in Keys :
         /\ Stray(k)' \subseteq Stray(k)
              \/ \E r \in DOMAIN req :
                    /\ Steps(r) /\ req[r].key = k
                    /\ \/ /\ req[r].pc = "remote_put"
                          /\ Stray(k)' = Stray(k) \cup {req[r].kvolume}
                       \/ /\ req[r].pc = "db_delete" /\ k \in DOMAIN db
                          /\ Stray(k)' = Stray(k) \cup {db[k]}
                          /\ req[r].kvolume = db[k] \/ req[r].err = ErrStore
         /\ (Agree(k) /\ \A r \in DOMAIN req : Steps(r) => ~Failed(r))
              => Agree(k)'
    /\ \A r \in DOMAIN req :
         Steps(r)
           => /\ (req[r].pc = "db_put" /\ req'[r].status = 201)
                   => req[r].kvolume \notin Stray(req[r].key)'
              /\ (req[r].pc = "db_put" /\ req'[r].status # 201)
                   => (req'[r].status = 500 /\ req'[r].err = ErrStore)
              /\ (req[r].pc = "remote_delete" /\ req'[r].status = 204)
                   => /\ req[r].kvolume \notin BlobVols(req[r].key)'
                      /\ req[r].err # ErrStore
              /\ (req[r].pc = "remote_delete" /\ req'[r].status # 204)
                   => req'[r].status = 500
C20_OrphansOnlyDocumented == [][C20_OrphanStep]_vars

\* a create of "/a" was answered 500 after its record write failed: the key
\* is unlocked and has no record, and the volume holds its blob
C20_Witness ==
    \E r \in DOMAIN req :
        /\ IsCreate(r) /\ Answered(r) /\ req[r].key = KeyA
        /\ req[r].status = 500 /\ req[r].err = ErrStore
        /\ KeyA \notin lock /\ KeyA \notin DOMAIN db
        /\ Stray(KeyA) = {req[r].kvolume}

====
